---- MODULE Spec2Model ----
(***************************************************************************)
(* Bronze -> Silver -> Gold pipeline of the big-five analytics platform.   *)
(*                                                                         *)
(* Time is counted in calendar days.  A timestamp is <<day, slot>> with    *)
(* slot 0 = 00:00 UTC (the daily bars of yfinance and CoinGecko) and       *)
(* slot 1 = 21:00 UTC (the bar written by seed_feb4_real.py).              *)
(* FLOAT64 values are fixed-point integers: prices and moving averages in  *)
(* units of 1/Scale, ratios (returns, widths) in units of 1/Scale as well. *)
(* A nullable SQL value is <<>> (NULL) or <<v>>.                           *)
(***************************************************************************)
EXTENDS Integers, Sequences, FiniteSets, Bags, TLC

VARIABLES
    today,      \* the current calendar day (CURRENT_DATE / Timestamp.now)
    market,     \* which price history the external price source serves
    bronze,     \* the Bronze table: a bag of RawBar rows
    silver,     \* the Silver table: a bag of DailyBar rows
    gold,       \* the Gold table: a bag of GoldRow rows
    ticks,      \* number of clock advances so far
    faults,     \* number of injected external failures so far
    seeds,      \* number of seed_feb4_real runs so far
    rebuilds,   \* number of rebuild_silver / rebuild_gold runs so far
    lastOp,     \* the operation performed by the last step
    again,      \* TRUE iff the last step repeated the stage run before it
    lastFailed, \* the symbols whose fetch raised in the last step
    pending,    \* per concurrent ingestion run: the batch it is about to load
    ti,         \* the task instances of the current DAG run
    dagRuns,    \* number of DAG runs created so far
    rets,       \* the daily returns of the rows of one ticker, oldest first
    rsi,        \* the rsi_14 of the last of these rows
    failures,   \* CircuitBreaker.failures: per ticker, the recorded failures
    last_failure_time,  \* CircuitBreaker.last_failure_time, in seconds
    clock,      \* time.time() of the poller process, in seconds
    polled,     \* the last poll_yfinance call: ticker, is_open result, outcome
    usage_tracker,  \* _usage_tracker of the API process: date and count
    apiDay,     \* date.today() of the API process
    thr,        \* per request thread: its position in check_daily_limit
    passed,     \* calls that have returned from check_daily_limit on apiDay
    overlaps    \* calls that entered check_daily_limit while another was inside

pipelineVars == <<today, market, bronze, silver, gold, ticks, faults, seeds, rebuilds,
                  lastOp, again, lastFailed, pending, ti, dagRuns>>
rsiVars == <<rets, rsi>>
pollerVars == <<failures, last_failure_time, clock, polled>>
apiVars == <<usage_tracker, apiDay, thr, passed, overlaps>>

vars == <<pipelineVars, rsiVars, pollerVars, apiVars>>

-----------------------------------------------------------------------------
(* Bounds of the model *)

MaxTicks == 2
MaxFaults == 1
MaxSeeds == 1
MaxRebuilds == 1
MaxDagRuns == 2
NumMarkets == 1

\* the clock advances by one day, or by a month and a day
TickDays == {1, 31}

-----------------------------------------------------------------------------
(* Program constants *)

BIG_FIVE_SYMBOLS == {"AAPL", "AMZN"}
CRYPTO_SYMBOLS == {"BTC", "ETH"}
Tickers == BIG_FIVE_SYMBOLS \cup CRYPTO_SYMBOLS

LOOKBACK_MONTHS == 6
COINGECKO_MAX_DAYS == 365
LOOKBACK_DAYS == 30
GOLD_LOOKBACK_DAYS == 30
SEED_DAY == 2

\* the daily returns the rows of the indicator inputs are drawn from, in 1/Scale
ReturnValues == {-50, -1, 0, 1, 200}

\* the longest run of rows whose rsi_14 is computed
MaxRows == 14

Scale == 1000
WScale == 1000

NULL == <<>>
Some(v) == <<v>>
IsNull(x) == x = <<>>
Val(x) == x[1]

Max(a, b) == IF a >= b THEN a ELSE b
Min(a, b) == IF a <= b THEN a ELSE b

RECURSIVE SumSet(_, _)
\* the sum of f[x] over x in S
SumSet(S, f) ==
    IF S = {} THEN 0
    ELSE LET x == CHOOSE y \in S : TRUE IN f[x] + SumSet(S \ {x}, f)

-----------------------------------------------------------------------------
(* The external price source *)

Idx(t) == CASE t = "AAPL" -> 1 [] t = "AMZN" -> 2 [] t = "BTC" -> 3 [] OTHER -> 4

SrcClose(m, t, d) == 10 + ((d * d + Idx(t) * d + m * (d \div 2)) % 11)
SrcOpen(m, t, d) == 10 + ((d * d + 3 * Idx(t) + m) % 11)
SrcHigh(m, t, d) == Max(SrcOpen(m, t, d), SrcClose(m, t, d)) + 1
SrcLow(m, t, d) == Min(SrcOpen(m, t, d), SrcClose(m, t, d)) - 1
SrcVolume(m, t, d) == 100 + 10 * ((d + Idx(t) * m) % 7)

\* the trading days the source has for the range [from, now]: its history
\* starts on day 1 and it has a bar for every day
SrcDays(from, now) == Max(from, 1)..now

\* the days on which the stock market is closed: a weekend
MarketClosed == {32, 33}

\* the days in [from, now] for which yfinance has a daily bar
TradingDays(from, now) == SrcDays(from, now) \ MarketClosed

-----------------------------------------------------------------------------
(* Timestamps *)

TsLE(a, b) == a[1] < b[1] \/ (a[1] = b[1] /\ a[2] <= b[2])
DATE(ts) == ts[1]
\* tz_convert(US/Eastern).date(): 00:00 UTC is the evening before in New York
EasternDate(ts) == IF ts[2] = 0 THEN ts[1] - 1 ELSE ts[1]

MaxTs(S) == CHOOSE a \in S : \A b \in S : TsLE(b, a)
MinTs(S) == CHOOSE a \in S : \A b \in S : TsLE(a, b)

-----------------------------------------------------------------------------
(* Bronze: bronze_etl.py, bronze_crypto_etl.py, seed_feb4_real.py *)

BronzeRows(bz) == BagToSet(bz)
KeyOf(b) == <<b.timestamp, b.ticker>>
BronzeKeys(bz) == {KeyOf(b) : b \in BronzeRows(bz)}

\* number of Bronze rows (with multiplicity) holding key k
KeyCount(bz, k) ==
    LET rows == {b \in BronzeRows(bz) : KeyOf(b) = k}
    IN SumSet(rows, [b \in rows |-> CopiesIn(b, bz)])

\* get_start_date: the day the stock fetch starts from
get_start_date(bz, now, raises) ==
    LET tss == {b.timestamp : b \in {r \in BronzeRows(bz) : r.ticker \in BIG_FIVE_SYMBOLS}}
    IN IF raises \/ tss = {}
       THEN now - LOOKBACK_MONTHS * 30
       ELSE EasternDate(MaxTs(tss))

StockBar(m, t, d, now) ==
    [timestamp |-> <<d, 0>>, ticker |-> t,
     open |-> SrcOpen(m, t, d), high |-> SrcHigh(m, t, d),
     low |-> SrcLow(m, t, d), close |-> SrcClose(m, t, d),
     volume |-> SrcVolume(m, t, d), ingested_at |-> now]

\* the loop with no try/except: a download that raises ends the fetch
fetch_stock_data_abort(m, symbols, start, now, failed) ==
    IF failed # {} THEN {}
    ELSE {StockBar(m, t, d, now) : t \in symbols, d \in TradingDays(start, now)}

\* fetch_stock_data: a symbol whose download raises is skipped
fetch_stock_data(m, symbols, start, now, failed) ==
    {StockBar(m, t, d, now) : t \in symbols \ failed, d \in TradingDays(start, now)}

\* fetch_stock_data: the number of yf.download calls the loop makes for one
\* symbol; the except clause logs the failure and the loop goes on
download_calls(t) == 1

\* an anti-join that is applied whether or not the key query raised
deduplicate_against_bq_always(bz, df, raises) ==
    {b \in df : KeyOf(b) \notin BronzeKeys(bz)}

\* deduplicate_against_bq: anti-join against the keys already stored
deduplicate_against_bq(bz, df, raises) ==
    IF df = {} THEN df
    ELSE LET tickers == {b.ticker : b \in df}
             min_ts == MinTs({b.timestamp : b \in df})
             existing == {k \in BronzeKeys(bz) :
                            k[2] \in tickers /\ TsLE(min_ts, k[1])}
         IN IF raises THEN df
            ELSE IF existing = {} THEN df
            ELSE {b \in df : KeyOf(b) \notin existing}

\* the load with WRITE_TRUNCATE: the batch replaces the table
load_to_bigquery_truncate(bz, df) == SetToBag(df)

\* load_to_bigquery: WRITE_APPEND
load_to_bigquery(bz, df) == bz (+) SetToBag(df)

\* bronze_etl.main up to the load: the batch left after deduplication
StockBatch(bz, m, now, failed, startRaises, dedupRaises) ==
    LET start_date == get_start_date(bz, now, startRaises)
        df == fetch_stock_data(m, BIG_FIVE_SYMBOLS, start_date, now, failed)
    IN deduplicate_against_bq(bz, df, dedupRaises)

\* bronze_etl.main
StockRun(bz, m, now, failed, startRaises, dedupRaises) ==
    load_to_bigquery(bz, StockBatch(bz, m, now, failed, startRaises, dedupRaises))

\* the daily bar the source serves for day d while the session of day d is
\* still open: the last traded price stands for the close, the volume is the
\* volume traded so far
IntradayBar(m, t, d, now) ==
    [StockBar(m, t, d, now) EXCEPT !.close = SrcClose(m, t, d) + 1,
                                   !.volume = SrcVolume(m, t, d) - 10]

\* fetch_stock_data called while the market is open: the bar of the current
\* day is the bar of the session so far
fetch_stock_data_intraday(m, symbols, start, now) ==
    {IF d = now THEN IntradayBar(m, t, d, now) ELSE StockBar(m, t, d, now) :
        t \in symbols, d \in TradingDays(start, now)}

\* bronze_etl.main, run while the market is open
StockRunIntraday(bz, m, now) ==
    LET start_date == get_start_date(bz, now, FALSE)
        df == fetch_stock_data_intraday(m, BIG_FIVE_SYMBOLS, start_date, now)
    IN load_to_bigquery(bz, deduplicate_against_bq(bz, df, FALSE))

\* get_start_date_for_crypto: an instant, or the default lookback
get_start_date_for_crypto(bz, t, now, raises) ==
    LET tss == {b.timestamp : b \in {r \in BronzeRows(bz) : r.ticker = t}}
    IN IF raises \/ tss = {}
       THEN now - LOOKBACK_MONTHS * 30
       ELSE DATE(MaxTs(tss))

CryptoBar(m, t, d, now) ==
    [timestamp |-> <<d, 0>>, ticker |-> t,
     open |-> SrcClose(m, t, d), high |-> SrcClose(m, t, d),
     low |-> SrcClose(m, t, d), close |-> SrcClose(m, t, d),
     volume |-> SrcVolume(m, t, d), ingested_at |-> now]

\* fetch_crypto_data: the last `days` daily points; a failure gives no rows
fetch_crypto_data(m, t, start, now, fails) ==
    LET days == Max(1, Min((now - start) + 1, COINGECKO_MAX_DAYS))
    IN IF fails THEN {}
       ELSE {CryptoBar(m, t, d, now) : d \in SrcDays(now - days + 1, now)}

\* fetch_crypto_data: the number of requests.get calls made for one symbol;
\* the except clause logs the failure and returns an empty frame
requests_get_calls(t) == 1

\* bronze_crypto_etl.main up to the load: the batch left after deduplication,
\* empty when no symbol returned data
CryptoBatch(bz, m, now, failed, startRaises, dedupRaises) ==
    LET combined == UNION {fetch_crypto_data(m, t,
                              get_start_date_for_crypto(bz, t, now, startRaises),
                              now, t \in failed) : t \in CRYPTO_SYMBOLS}
    IN IF combined = {} THEN {}
       ELSE deduplicate_against_bq(bz, combined, dedupRaises)

\* bronze_crypto_etl.main
CryptoRun(bz, m, now, failed, startRaises, dedupRaises) ==
    LET batch == CryptoBatch(bz, m, now, failed, startRaises, dedupRaises)
    IN IF batch = {} THEN bz ELSE load_to_bigquery(bz, batch)

\* seed_feb4_real.main: one projected bar per stock symbol, appended as is
SeedBar(m, t, now) ==
    [timestamp |-> <<SEED_DAY, 1>>, ticker |-> t,
     open |-> SrcOpen(m, t, SEED_DAY), high |-> SrcHigh(m, t, SEED_DAY) + 1,
     low |-> SrcLow(m, t, SEED_DAY), close |-> SrcClose(m, t, SEED_DAY) + 1,
     volume |-> SrcVolume(m, t, SEED_DAY), ingested_at |-> now]

SeedRun(bz, m, now) ==
    load_to_bigquery(bz, {SeedBar(m, t, now) : t \in BIG_FIVE_SYMBOLS})

-----------------------------------------------------------------------------
(* Fixed-point arithmetic standing for FLOAT64 *)

\* SAFE_DIVIDE(x, y) of two numbers in the same unit, as a ratio in 1/Scale
SAFE_DIVIDE(x, y) == IF y = 0 THEN NULL ELSE Some((x * Scale) \div y)

\* a sequence given by a function constructor, evaluated once
Tuple(f) == f \o <<>>

RECURSIVE PrefixTo(_, _)
PrefixTo(x, i) ==
    IF i = 0 THEN <<>>
    ELSE LET p == PrefixTo(x, i - 1)
         IN Append(p, (IF i = 1 THEN 0 ELSE p[i - 1]) + x[i])

\* the running sums of a sequence: Prefix(x)[i] = x[1] + ... + x[i]
Prefix(x) == PrefixTo(x, Len(x))

\* x[lo] + ... + x[hi], from the running sums p of x
RangeSum(p, lo, hi) == p[hi] - (IF lo > 1 THEN p[lo - 1] ELSE 0)

\* POW(num/den, off) for off = 0..n-1, in units of 1/WScale; entry off+1
RECURSIVE PowTable(_, _, _)
PowTable(num, den, n) ==
    IF n = 1 THEN <<WScale>>
    ELSE LET prev == PowTable(num, den, n - 1)
         IN Append(prev, (prev[n - 1] * num) \div den)

\* the weights of one EMA and their sum
Weights(num, den, n) ==
    LET w == PowTable(num, den, n) IN [w |-> w, total |-> Prefix(w)[n]]

\* the weights of the 12-day EMA with the decay factor 10/12
POW_10_12 == Weights(10, 12, 12)

POW_11_13 == Weights(11, 13, 12)
POW_25_27 == Weights(25, 27, 26)
POW_0_8 == Weights(8, 10, 9)

RECURSIVE ISqrtIn(_, _, _)
\* the largest r in lo..hi with r * r <= x
ISqrtIn(x, lo, hi) ==
    IF lo >= hi THEN lo
    ELSE LET mid == (lo + hi + 1) \div 2
         IN IF mid * mid <= x THEN ISqrtIn(x, mid, hi) ELSE ISqrtIn(x, lo, mid - 1)

\* SQRT, rounded down; the search starts from a range that fits the size of x
ISqrt(x) ==
    ISqrtIn(x, 0, IF x < 1024 THEN 31 ELSE IF x < 1048576 THEN 1023 ELSE 46340)

-----------------------------------------------------------------------------
(* SQL window functions over one ticker's rows, ordered by trade_date *)

MinOf(S) == CHOOSE x \in S : \A y \in S : x <= y
MaxOf(S) == CHOOSE x \in S : \A y \in S : x >= y

RECURSIVE AscFrom(_, _, _)
AscFrom(S, d, hi) ==
    IF d > hi THEN <<>>
    ELSE IF d \in S THEN <<d>> \o AscFrom(S, d + 1, hi)
    ELSE AscFrom(S, d + 1, hi)

\* ORDER BY ... ASC of a set of days
Ascending(S) == IF S = {} THEN <<>> ELSE AscFrom(S, MinOf(S), MaxOf(S))

\* LAG(x) OVER (PARTITION BY ticker ORDER BY trade_date)
LAG(x, i) == IF i > 1 THEN Some(x[i - 1]) ELSE NULL

\* ARRAY_AGG(x) OVER (ORDER BY trade_date DESC ROWS BETWEEN k PRECEDING AND
\* CURRENT ROW): in descending order the k preceding rows are the k LATER days;
\* element off+1 is the row at offset off, the current row comes last
ArrayAggDesc(x, i, k) ==
    LET hi == Min(i + k, Len(x))
    IN Tuple([j \in 1..(hi - i + 1) |-> x[hi - j + 1]])

\* first row of the frame ROWS BETWEEN k PRECEDING AND CURRENT ROW (ascending)
FrameLo(i, k) == Max(1, i - k)

\* COUNT(*) OVER (ORDER BY trade_date ROWS BETWEEN k PRECEDING AND CURRENT ROW)
COUNT_OVER(i, k) == i - FrameLo(i, k) + 1

\* AVG(x) OVER (ORDER BY trade_date ROWS BETWEEN k PRECEDING AND CURRENT ROW),
\* from the running sums px of x
AVG_OVER(px, i, k) ==
    (RangeSum(px, FrameLo(i, k), i) * Scale) \div COUNT_OVER(i, k)

\* the standard deviation taken as the negative square root of the variance
STDDEV_OVER_negative(px, pxx, i, k) ==
    LET n == COUNT_OVER(i, k)
        lo == FrameLo(i, k)
        s1 == RangeSum(px, lo, i)
        s2 == RangeSum(pxx, lo, i)
    IN IF n < 2 THEN NULL
       ELSE Some(-(ISqrt(((n * s2 - s1 * s1) * 10000) \div (n * (n - 1))) * (Scale \div 100)))

\* STDDEV(x) OVER (... ROWS BETWEEN k PRECEDING AND CURRENT ROW): the sample
\* standard deviation, NULL on a single row; from the running sums of x and x*x
STDDEV_OVER(px, pxx, i, k) ==
    LET n == COUNT_OVER(i, k)
        lo == FrameLo(i, k)
        s1 == RangeSum(px, lo, i)
        s2 == RangeSum(pxx, lo, i)
    IN IF n < 2 THEN NULL
       ELSE Some(ISqrt(((n * s2 - s1 * s1) * 10000) \div (n * (n - 1))) * (Scale \div 100))

RECURSIVE Dot(_, _, _)
\* SUM(v * POW(b, off)) over the first n elements of arr, w the table of POW
Dot(arr, w, n) == IF n = 0 THEN 0 ELSE arr[n] * w[n] + Dot(arr, w, n - 1)

RECURSIVE DotNullable(_, _, _)
\* the same sum over nullable elements: SUM skips a NULL product
DotNullable(arr, w, n) ==
    IF n = 0 THEN 0
    ELSE (IF IsNull(arr[n]) THEN 0 ELSE Val(arr[n]) * w[n]) + DotNullable(arr, w, n - 1)

\* (SELECT SUM(v * POW(b, off)) / SUM(POW(b, off)) FROM UNNEST(arr) v WITH OFFSET off)
\* over an array of prices; the result is in 1/Scale
WeightedAvg(arr, pow) == (Dot(arr, pow.w, Len(arr)) * Scale) \div pow.total

\* the same subquery over an array of nullable values: SUM skips the NULL
\* products, the weights are summed over every offset
WeightedAvgNullable(arr, pow) ==
    LET n == Len(arr)
        present == {j \in 1..n : ~IsNull(arr[j])}
    IN IF present = {} THEN NULL
       ELSE Some(DotNullable(arr, pow.w, n) \div pow.total)

-----------------------------------------------------------------------------
(* Silver: silver_etl.py *)

\* get_last_trade_date: the 30-day lookback date, whatever Silver holds
get_last_trade_date(sv, now) == Some(now - LOOKBACK_DAYS)

\* get_dates_to_process: the Bronze dates later than last_trade_date
get_dates_to_process(bz, ltd) ==
    {DATE(b.timestamp) : b \in {r \in BronzeRows(bz) :
        IsNull(ltd) \/ DATE(r.timestamp) > Val(ltd)}}

\* CTE daily with GROUP BY on the date alone: the bars of every ticker fall
\* into the group of their day
DailyOf_unpartitioned(bz, ltd, t, now) ==
    LET rows == {b \in BronzeRows(bz) :
                    IsNull(ltd) \/ DATE(b.timestamp) >= Val(ltd) - 1}
        days == Ascending({DATE(b.timestamp) : b \in rows})
        grp(d) == {b \in rows : DATE(b.timestamp) = d}
        first(g) == CHOOSE b \in g : \A o \in g : TsLE(b.timestamp, o.timestamp)
        last(g) == CHOOSE b \in g : \A o \in g : TsLE(o.timestamp, b.timestamp)
    IN Tuple([i \in 1..Len(days) |->
          LET g == grp(days[i])
          IN [trade_date |-> days[i], ticker |-> t,
              open |-> first(g).open,
              high |-> MaxOf({b.high : b \in g}),
              low |-> MinOf({b.low : b \in g}),
              close |-> last(g).close,
              total_volume |-> SumSet(g, [b \in g |-> b.volume * CopiesIn(b, bz)]),
              ingested_at |-> now]])

\* CTE daily, for one ticker: the rows of the ticker grouped by DATE(timestamp)
DailyOf(bz, ltd, t, now) ==
    LET rows == {b \in BronzeRows(bz) :
                    /\ b.ticker = t
                    /\ (IsNull(ltd) \/ DATE(b.timestamp) >= Val(ltd) - 1)}
        days == Ascending({DATE(b.timestamp) : b \in rows})
        grp(d) == {b \in rows : DATE(b.timestamp) = d}
        first(g) == CHOOSE b \in g : \A o \in g : TsLE(b.timestamp, o.timestamp)
        last(g) == CHOOSE b \in g : \A o \in g : TsLE(o.timestamp, b.timestamp)
    IN Tuple([i \in 1..Len(days) |->
          LET g == grp(days[i])
          IN [trade_date |-> days[i], ticker |-> t,
              open |-> first(g).open,
              high |-> MaxOf({b.high : b \in g}),
              low |-> MinOf({b.low : b \in g}),
              close |-> last(g).close,
              total_volume |-> SumSet(g, [b \in g |-> b.volume * CopiesIn(b, bz)]),
              ingested_at |-> now]])

\* CTEs returns .. final_indicators, for one ticker
SilverIndicators(ds) ==
    LET n == Len(ds)
        c == Tuple([i \in 1..n |-> ds[i].close])
        v == Tuple([i \in 1..n |-> ds[i].total_volume])
        pc == Prefix(c)
        pcc == Prefix([i \in 1..n |-> c[i] * c[i]])
        pv == Prefix(v)
        prev(i) == IF IsNull(LAG(c, i)) THEN c[i] ELSE Val(LAG(c, i))
        ema12 == Tuple([i \in 1..n |->
                    LET arr12 == ArrayAggDesc(c, i, 11)
                    IN IF Len(arr12) = 12 THEN Some(WeightedAvg(arr12, POW_11_13))
                       ELSE NULL])
        ema26 == Tuple([i \in 1..n |->
                    LET arr26 == ArrayAggDesc(c, i, 25)
                    IN IF Len(arr26) = 26 THEN Some(WeightedAvg(arr26, POW_25_27))
                       ELSE NULL])
        macd == Tuple([i \in 1..n |->
                    IF IsNull(ema12[i]) \/ IsNull(ema26[i]) THEN NULL
                    ELSE Some(Val(ema12[i]) - Val(ema26[i]))])
        signal == Tuple([i \in 1..n |->
                    LET arr_signal == ArrayAggDesc(macd, i, 8)
                    IN IF ~IsNull(macd[i]) /\ Len(arr_signal) = 9
                       THEN WeightedAvgNullable(arr_signal, POW_0_8)
                       ELSE NULL])
    IN Tuple([i \in 1..n |->
          LET bb_middle == AVG_OVER(pc, i, 19)
              bb_std == STDDEV_OVER(pc, pcc, i, 19)
              vma_20 == AVG_OVER(pv, i, 19)
          IN [trade_date |-> ds[i].trade_date, ticker |-> ds[i].ticker,
              open |-> ds[i].open, high |-> ds[i].high, low |-> ds[i].low,
              close |-> ds[i].close, total_volume |-> ds[i].total_volume,
              ingested_at |-> ds[i].ingested_at,
              daily_return |-> SAFE_DIVIDE(c[i] - prev(i), prev(i)),
              ema_12 |-> ema12[i], ema_26 |-> ema26[i],
              macd_line |-> macd[i], macd_signal |-> signal[i],
              macd_histogram |-> IF IsNull(macd[i]) \/ IsNull(signal[i]) THEN NULL
                                 ELSE Some(Val(macd[i]) - Val(signal[i])),
              bb_middle |-> Some(bb_middle),
              bb_upper |-> IF IsNull(bb_std) THEN NULL
                           ELSE Some(bb_middle + 2 * Val(bb_std)),
              bb_lower |-> IF IsNull(bb_std) THEN NULL
                           ELSE Some(bb_middle - 2 * Val(bb_std)),
              bb_width |-> IF IsNull(bb_std) THEN NULL
                           ELSE SAFE_DIVIDE(4 * Val(bb_std), bb_middle),
              vma_20 |-> Some(vma_20),
              volume_ratio |-> SAFE_DIVIDE(v[i] * Scale, vma_20)]])

\* build_incremental_sql: the rows the query returns
build_incremental_sql(bz, ltd, now) ==
    UNION {LET rows == SilverIndicators(DailyOf(bz, ltd, t, now))
           IN {rows[i] : i \in {j \in 1..Len(rows) :
                                  IsNull(ltd) \/ rows[j].trade_date > Val(ltd)}}
           : t \in Tickers}

RowKey(r) == <<r.trade_date, r.ticker>>
Rows(tbl) == BagToSet(tbl)
Keys(tbl) == {RowKey(r) : r \in Rows(tbl)}
KeysOf(S) == {RowKey(r) : r \in S}

\* the source rows inserted whether or not the target holds their key
merge_into_silver_insert_all(sv, source) == sv (+) SetToBag(source)

\* merge_into_silver: MERGE ... ON trade_date, ticker; WHEN MATCHED every
\* column of the target row is set from the source row, WHEN NOT MATCHED the
\* source row is inserted
merge_into_silver(sv, source) ==
    LET src_keys == KeysOf(source)
        tgt_keys == Keys(sv)
        \* no two target rows share a key
        one_per_key == BagCardinality(sv) = Cardinality(tgt_keys)
        unmatched == {r \in Rows(sv) : RowKey(r) \notin src_keys}
        \* the number of target rows a source row matches, 1 when it is inserted
        copies(s) ==
            IF RowKey(s) \notin tgt_keys \/ one_per_key THEN 1
            ELSE LET hit == {r \in Rows(sv) : RowKey(r) = RowKey(s)}
                 IN SumSet(hit, [r \in hit |-> CopiesIn(r, sv)])
    IN [r \in unmatched |-> CopiesIn(r, sv)] (+) [s \in source |-> copies(s)]

\* silver_etl.main, a run whose queries succeed
SilverRun(bz, sv, now) ==
    LET last_trade_date == get_last_trade_date(sv, now)
        new_dates == get_dates_to_process(bz, last_trade_date)
    IN IF new_dates = {} THEN sv
       ELSE merge_into_silver(sv, build_incremental_sql(bz, last_trade_date, now))

\* the calls of silver_etl.main whose exception ends the run with a non-zero
\* exit: ensure_silver_table, merge_into_silver, and the verification query
\* that follows the MERGE
SilverFailPoints == {"ensure", "merge", "verify"}

\* silver_etl.main, a run that exits non-zero at `point`: the MERGE is one
\* atomic statement, the verification query runs after it has committed
SilverFailed(bz, sv, now, point) ==
    IF point = "verify" THEN SilverRun(bz, sv, now) ELSE sv

\* TRUE iff a run of silver_etl.main gets as far as `point`
SilverReaches(bz, sv, now, point) ==
    point = "ensure" \/ get_dates_to_process(bz, get_last_trade_date(sv, now)) # {}

\* a main whose date scan, when it raises, ends the run like a failed MERGE
silver_main_scan_exits(bz, sv, now, point) ==
    IF point \in {"ensure", "scan", "merge"}
    THEN [silver |-> sv, status |-> 1, log |-> "failed"]
    ELSE [silver |-> SilverRun(bz, sv, now), status |-> 1, log |-> "failed"]

\* silver_etl.main with the call named by `point` raising: the table it leaves,
\* its exit status and its last log line.  ensure_silver_table raises out of
\* main; get_dates_to_process catches its own exception and returns []; the
\* MERGE and the verification query are inside main's try / sys.exit(1)
silver_main(bz, sv, now, point) ==
    LET last_trade_date == get_last_trade_date(sv, now)
        new_dates == IF point = "scan" THEN {}
                     ELSE get_dates_to_process(bz, last_trade_date)
        merged == merge_into_silver(sv, build_incremental_sql(bz, last_trade_date, now))
    IN IF point = "ensure" THEN [silver |-> sv, status |-> 1, log |-> "failed"]
       ELSE IF new_dates = {} THEN [silver |-> sv, status |-> 0, log |-> "up_to_date"]
       ELSE IF point = "merge" THEN [silver |-> sv, status |-> 1, log |-> "failed"]
       ELSE IF point = "verify" THEN [silver |-> merged, status |-> 1, log |-> "failed"]
       ELSE [silver |-> merged, status |-> 0, log |-> "finished"]

\* how a finished run of silver_etl.py is recorded: exit status and last log line
SilverOutcome(run) ==
    IF run.status = 0 THEN "silver_exit0_" \o run.log ELSE "silver_exit1_" \o run.log

-----------------------------------------------------------------------------
(* Gold: gold_etl.py *)

\* AVG over a frame of values that are already in 1/Scale
AVG_SCALED_OVER(px, i, k) == RangeSum(px, FrameLo(i, k), i) \div COUNT_OVER(i, k)

\* CTE base, for one ticker: the Silver rows of the ticker by trade_date
BaseOf(sv, t) ==
    LET rows == {r \in Rows(sv) : r.ticker = t}
        days == Ascending({r.trade_date : r \in rows})
    IN Tuple([i \in 1..Len(days) |-> CHOOSE r \in rows : r.trade_date = days[i]])

\* the ratio of the averages taken for the index itself
RSI_ratio(avg_gain, avg_loss) ==
    LET rs == SAFE_DIVIDE(avg_gain, avg_loss)
    IN IF IsNull(rs) THEN NULL ELSE Some(100 * Val(rs))

\* 100 - 100 / (1 + SAFE_DIVIDE(avg gain, avg loss)), in 1/Scale
RSI(avg_gain, avg_loss) ==
    LET rs == SAFE_DIVIDE(avg_gain, avg_loss)
    IN IF IsNull(rs) THEN NULL
       ELSE Some(100 * Scale - (100 * Scale * Scale) \div (Scale + Val(rs)))

\* rsi_14 of row i, from the running sums of the gains and of the losses: the
\* index over the frame of 13 preceding rows and the row, NULL over a shorter one
rsi_14(gain, loss, i) ==
    IF COUNT_OVER(i, 13) = 14
    THEN RSI(AVG_SCALED_OVER(gain, i, 13), AVG_SCALED_OVER(loss, i, 13))
    ELSE NULL

\* rsi_14 of the last of the rows whose daily returns are ret
rsi_14_of(ret) ==
    LET n == Len(ret)
        gain == Prefix([i \in 1..n |-> IF ret[i] > 0 THEN ret[i] ELSE 0])
        loss == Prefix([i \in 1..n |-> IF ret[i] < 0 THEN -ret[i] ELSE 0])
    IN rsi_14(gain, loss, n)

\* CTEs daily .. final, for one ticker
GoldIndicators(bs) ==
    LET n == Len(bs)
        c == Tuple([i \in 1..n |-> bs[i].close])
        v == Tuple([i \in 1..n |-> bs[i].total_volume])
        pc == Prefix(c)
        pcc == Prefix([i \in 1..n |-> c[i] * c[i]])
        pv == Prefix(v)
        ret == Tuple([i \in 1..n |->
                  LET q == IF IsNull(LAG(c, i)) THEN NULL
                           ELSE SAFE_DIVIDE(c[i] - Val(LAG(c, i)), Val(LAG(c, i)))
                  IN IF IsNull(q) THEN 0 ELSE Val(q)])
        cum == Prefix(ret)
        gain == Prefix([i \in 1..n |-> IF ret[i] > 0 THEN ret[i] ELSE 0])
        loss == Prefix([i \in 1..n |-> IF ret[i] < 0 THEN -ret[i] ELSE 0])
        arr12 == Tuple([i \in 1..n |-> ArrayAggDesc(c, i, 11)])
        arr26 == Tuple([i \in 1..n |-> ArrayAggDesc(c, i, 25)])
        ema12 == Tuple([i \in 1..n |->
                    IF Len(arr12[i]) = 12 THEN Some(WeightedAvg(arr12[i], POW_11_13))
                    ELSE NULL])
        ema26 == Tuple([i \in 1..n |->
                    IF Len(arr26[i]) = 26 THEN Some(WeightedAvg(arr26[i], POW_25_27))
                    ELSE NULL])
        macd == Tuple([i \in 1..n |->
                    IF Len(arr12[i]) = 12 /\ Len(arr26[i]) = 26
                    THEN Some(Val(ema12[i]) - Val(ema26[i]))
                    ELSE NULL])
        signal == Tuple([i \in 1..n |->
                    LET arr_signal == ArrayAggDesc(macd, i, 8)
                    IN IF ~IsNull(macd[i]) /\ Len(arr_signal) = 9
                       THEN WeightedAvgNullable(arr_signal, POW_0_8)
                       ELSE NULL])
    IN Tuple([i \in 1..n |->
          LET full20 == COUNT_OVER(i, 19) = 20
              avg20 == AVG_OVER(pc, i, 19)
              std20 == STDDEV_OVER(pc, pcc, i, 19)
              vavg20 == AVG_OVER(pv, i, 19)
          IN [trade_date |-> bs[i].trade_date, ticker |-> bs[i].ticker,
              open |-> bs[i].open, high |-> bs[i].high, low |-> bs[i].low,
              close |-> bs[i].close, total_volume |-> bs[i].total_volume,
              ingested_at |-> bs[i].ingested_at,
              daily_return |-> ret[i],
              cumulative_return |-> cum[i],
              ma_20 |-> IF full20 THEN Some(avg20) ELSE NULL,
              ma_50 |-> IF COUNT_OVER(i, 49) = 50 THEN Some(AVG_OVER(pc, i, 49))
                        ELSE NULL,
              rsi_14 |-> rsi_14(gain, loss, i),
              macd_line |-> macd[i], macd_signal |-> signal[i],
              macd_histogram |-> IF ~IsNull(macd[i]) /\ ~IsNull(signal[i])
                                 THEN Some(Val(macd[i]) - Val(signal[i]))
                                 ELSE NULL,
              bb_upper |-> IF full20 THEN Some(avg20 + 2 * Val(std20)) ELSE NULL,
              bb_middle |-> IF full20 THEN Some(avg20) ELSE NULL,
              bb_lower |-> IF full20 THEN Some(avg20 - 2 * Val(std20)) ELSE NULL,
              bb_width |-> IF full20 THEN SAFE_DIVIDE(4 * Val(std20), avg20) ELSE NULL,
              vma_20 |-> IF full20 THEN Some(vavg20) ELSE NULL,
              volume_ratio |-> IF full20 THEN SAFE_DIVIDE(v[i] * Scale, vavg20)
                               ELSE NULL,
              ema_12 |-> ema12[i], ema_26 |-> ema26[i]]])

\* the USING subquery of the MERGE: SELECT * FROM final WHERE trade_date > ...
GoldSource(sv, now) ==
    UNION {LET rows == GoldIndicators(BaseOf(sv, t))
           IN {rows[i] : i \in {j \in 1..Len(rows) :
                                  rows[j].trade_date > now - GOLD_LOOKBACK_DAYS}}
           : t \in Tickers}

\* MERGE ... ON trade_date, ticker WHEN NOT MATCHED THEN INSERT
merge_into_gold(gd, src) ==
    LET gold_keys == Keys(gd)
    IN gd (+) SetToBag({r \in src : RowKey(r) \notin gold_keys})

\* the columns of the CTEs base, daily and with_arrays
BaseColumns ==
    {"trade_date", "ticker", "open", "high", "low", "close", "total_volume",
     "ingested_at"}
DailyColumns == BaseColumns \cup {"daily_return"}
WithArraysColumns == DailyColumns \cup {"arr26", "arr12"}

\* the columns in scope in the SELECT list of the CTE macd_base: FROM daily
MacdBaseFrom == DailyColumns

\* the column names the SELECT list of macd_base refers to
MacdBaseNames ==
    {"arr26", "arr12", "daily_return", "close", "total_volume", "ticker",
     "trade_date"}

\* the MERGE statement passes name resolution: every name macd_base refers
\* to is a column of its FROM clause
MergeResolves == MacdBaseNames \subseteq MacdBaseFrom

\* the exit status of gold_etl.py: a MERGE the warehouse rejects raises, and
\* run_gold_etl calls sys.exit(1)
gold_exit_status == IF MergeResolves THEN 0 ELSE 1

\* run_gold_etl: CREATE TABLE IF NOT EXISTS, then the MERGE; a rejected MERGE
\* writes no row
run_gold_etl(sv, gd, now) ==
    IF MergeResolves THEN merge_into_gold(gd, GoldSource(sv, now)) ELSE gd

\* run_gold_etl, a run that exits non-zero: the script's MERGE failed, no row
\* was written
GoldFailed(gd) == gd

-----------------------------------------------------------------------------
(* The DAG big_five_daily_etl *)

DagTasks == {"resolve_latest_image", "bronze_etl", "silver_etl", "gold_etl"}

\* default_args: retries
RETRIES == 2

\* the dependencies with every task free to start at once
Upstream_none(t) == {}

\* resolve_image >> bronze >> silver >> gold: the direct upstream tasks
Upstream(t) ==
    CASE t = "resolve_latest_image" -> {}
      [] t = "bronze_etl" -> {"resolve_latest_image"}
      [] t = "silver_etl" -> {"bronze_etl"}
      [] t = "gold_etl" -> {"silver_etl"}

\* a task instance has finished for good
Finished(x) == x.state \in {"success", "failed", "upstream_failed"}

-----------------------------------------------------------------------------
(* Concurrent ingestion runs *)

Procs == {1, 2}

-----------------------------------------------------------------------------
(* The realtime poller: realtime_poller.py *)

BIG_FIVE_TICKERS == BIG_FIVE_SYMBOLS

\* CircuitBreaker.__init__
failure_threshold == 3
recovery_timeout == 60

\* time.time() when the poller starts: long after the epoch, which is the
\* last_failure_time of a ticker that has none
StartClock == 10 * recovery_timeout

\* the seconds that pass between two events of the poller
ClockSteps == {30, 59}

\* the poller is followed for this many seconds
MaxElapsed == 120

\* a circuit that stays open up to and including the timeout
is_open_inclusive(f, lft, now, t) ==
    IF f[t] >= failure_threshold
    THEN IF now - lft[t] <= recovery_timeout
         THEN [open |-> TRUE, failures |-> f]
         ELSE [open |-> FALSE, failures |-> [f EXCEPT ![t] = 0]]
    ELSE [open |-> FALSE, failures |-> f]

\* CircuitBreaker.is_open: the answer, and the failure counts it leaves
is_open(f, lft, now, t) ==
    IF f[t] >= failure_threshold
    THEN IF now - lft[t] < recovery_timeout
         THEN [open |-> TRUE, failures |-> f]
         ELSE [open |-> FALSE, failures |-> [f EXCEPT ![t] = 0]]
    ELSE [open |-> FALSE, failures |-> f]

\* CircuitBreaker.record_failure
record_failure(f, lft, now, t) ==
    [failures |-> [f EXCEPT ![t] = @ + 1],
     last_failure_time |-> [lft EXCEPT ![t] = now]]

\* poll_yfinance: nothing is fetched while the circuit is open; a fetch that
\* raises is recorded as a failure; a fetch that succeeds records nothing
poll_yfinance(f, lft, now, t, raises) ==
    LET chk == is_open(f, lft, now, t)
        rec == record_failure(chk.failures, lft, now, t)
    IN IF chk.open
       THEN [failures |-> chk.failures, last_failure_time |-> lft,
             open |-> TRUE, outcome |-> "skipped"]
       ELSE IF raises
       THEN [failures |-> rec.failures, last_failure_time |-> rec.last_failure_time,
             open |-> FALSE, outcome |-> "failed"]
       ELSE [failures |-> chk.failures, last_failure_time |-> lft,
             open |-> FALSE, outcome |-> "tick"]

-----------------------------------------------------------------------------
(* The API process: app/main.py *)

DAILY_LIMIT == 50

\* the request threads that run check_daily_limit at the same time
Threads == {1, 2}

\* the last calendar day of the API process that is followed
MaxApiDay == 2

\* at most this many calls enter check_daily_limit while another call is inside
MaxOverlaps == 1

\* the locals of a request thread that is not inside check_daily_limit
Idle == [pc |-> "idle", today |-> 0, dict |-> 0, count |-> 0]

-----------------------------------------------------------------------------
(* The state machine *)

Init ==
    /\ today = 1
    /\ market \in 1..NumMarkets
    /\ bronze = EmptyBag
    /\ silver = EmptyBag
    /\ gold = EmptyBag
    /\ ticks = 0
    /\ faults = 0
    /\ seeds = 0
    /\ rebuilds = 0
    /\ lastOp = "init"
    /\ again = FALSE
    /\ lastFailed = {}
    /\ pending = [p \in Procs |-> NULL]
    /\ ti = [t \in DagTasks |-> [state |-> "none", try_number |-> 0]]
    /\ dagRuns = 0
    /\ rets = <<>>
    /\ rsi = NULL
    /\ failures = [t \in BIG_FIVE_TICKERS |-> 0]
    /\ last_failure_time = [t \in BIG_FIVE_TICKERS |-> 0]
    /\ clock = StartClock
    /\ polled = [ticker |-> "none", open |-> FALSE, outcome |-> "none"]
    /\ usage_tracker = [id |-> 0, date |-> 1, count |-> 0]
    /\ apiDay = 1
    /\ thr = [h \in Threads |-> Idle]
    /\ passed = 0
    /\ overlaps = 0

\* the step is a run of pipeline operation op; the poller, the API process
\* and the indicator inputs are other processes and stay as they are
Ran(op, failed) ==
    /\ lastOp' = op
    /\ again' = (op \in {"silver", "gold"} /\ lastOp = op)
    /\ lastFailed' = failed
    /\ UNCHANGED <<rsiVars, pollerVars, apiVars>>

Did(op) == Ran(op, {})

Cost(failed, startRaises, dedupRaises) ==
    Cardinality(failed) + (IF startRaises THEN 1 ELSE 0) + (IF dedupRaises THEN 1 ELSE 0)

\* one more daily row of the ticker: its return is drawn and its rsi_14 is
\* computed as the Gold query does.  The aggregates of the frame do not depend
\* on the order of its rows, so the returns are drawn in non-decreasing order.
AppendReturn ==
    /\ Len(rets) < MaxRows
    /\ \E r \in ReturnValues :
         /\ IF rets = <<>> THEN TRUE ELSE rets[Len(rets)] <= r
         /\ rets' = Append(rets, r)
    /\ rsi' = rsi_14_of(rets')
    /\ UNCHANGED <<pipelineVars, pollerVars, apiVars>>

\* time passes in the poller process
PollerTick ==
    /\ \E k \in ClockSteps :
         /\ clock + k <= StartClock + MaxElapsed
         /\ clock' = clock + k
    /\ UNCHANGED <<pipelineVars, rsiVars, apiVars, failures, last_failure_time, polled>>

\* await poll_yfinance(t), the fetch succeeding or raising
Poll(t) ==
    \E raises \in BOOLEAN :
        LET r == poll_yfinance(failures, last_failure_time, clock, t, raises)
        IN /\ failures' = r.failures
           /\ last_failure_time' = r.last_failure_time
           /\ polled' = [ticker |-> t, open |-> r.open, outcome |-> r.outcome]
           /\ UNCHANGED <<pipelineVars, rsiVars, apiVars, clock>>

\* a request thread enters check_daily_limit: today = date.today()
LimitEnter(h) ==
    /\ thr[h].pc = "idle"
    /\ LET inside == \E g \in Threads : thr[g].pc # "idle"
       IN /\ inside => overlaps < MaxOverlaps
          /\ overlaps' = IF inside THEN overlaps + 1 ELSE overlaps
    /\ thr' = [thr EXCEPT ![h] = [@ EXCEPT !.pc = "date", !.today = apiDay]]
    /\ UNCHANGED <<pipelineVars, rsiVars, pollerVars, usage_tracker, apiDay, passed>>

\* if _usage_tracker["date"] != today: _usage_tracker = {date: today, count: 0}
LimitDate(h) ==
    /\ thr[h].pc = "date"
    /\ usage_tracker' = IF usage_tracker.date # thr[h].today
                        THEN [id |-> usage_tracker.id + 1, date |-> thr[h].today,
                              count |-> 0]
                        ELSE usage_tracker
    /\ thr' = [thr EXCEPT ![h].pc = "limit"]
    /\ UNCHANGED <<pipelineVars, rsiVars, pollerVars, apiDay, passed, overlaps>>

\* if _usage_tracker["count"] >= DAILY_LIMIT: raise HTTPException(429)
LimitTest(h) ==
    /\ thr[h].pc = "limit"
    /\ thr' = [thr EXCEPT ![h] = IF usage_tracker.count >= DAILY_LIMIT
                                 THEN Idle ELSE [@ EXCEPT !.pc = "load"]]
    /\ UNCHANGED <<pipelineVars, rsiVars, pollerVars, usage_tracker, apiDay, passed,
                   overlaps>>

\* _usage_tracker["count"] += 1, first half: the dict and its count are read
LimitLoad(h) ==
    /\ thr[h].pc = "load"
    /\ thr' = [thr EXCEPT ![h] = [@ EXCEPT !.pc = "store",
                                           !.dict = usage_tracker.id,
                                           !.count = usage_tracker.count]]
    /\ UNCHANGED <<pipelineVars, rsiVars, pollerVars, usage_tracker, apiDay, passed,
                   overlaps>>

\* _usage_tracker["count"] += 1, second half: count + 1 is stored into the
\* dict that was read, and the call returns
LimitStore(h) ==
    /\ thr[h].pc = "store"
    /\ usage_tracker' = IF usage_tracker.id = thr[h].dict
                        THEN [usage_tracker EXCEPT !.count = thr[h].count + 1]
                        ELSE usage_tracker
    /\ passed' = IF thr[h].today = apiDay THEN passed + 1 ELSE passed
    /\ thr' = [thr EXCEPT ![h] = Idle]
    /\ UNCHANGED <<pipelineVars, rsiVars, pollerVars, apiDay, overlaps>>

\* midnight in the API process
Midnight ==
    /\ apiDay < MaxApiDay
    /\ apiDay' = apiDay + 1
    /\ passed' = 0
    /\ UNCHANGED <<pipelineVars, rsiVars, pollerVars, usage_tracker, thr, overlaps>>

\* time passes
Tick ==
    /\ ticks < MaxTicks
    /\ \E k \in TickDays : today' = today + k
    /\ ticks' = ticks + 1
    /\ Did("tick")
    /\ UNCHANGED <<market, bronze, silver, gold, faults, seeds, rebuilds, pending, ti, dagRuns>>

\* python bronze_etl.py, every external call succeeding
StockIngest ==
    /\ bronze' = StockRun(bronze, market, today, {}, FALSE, FALSE)
    /\ Did("stock")
    /\ UNCHANGED <<today, market, silver, gold, ticks, faults, seeds, rebuilds, pending, ti, dagRuns>>

\* python bronze_etl.py, run before the close of today's session
StockIngestIntraday ==
    /\ today \notin MarketClosed
    /\ bronze' = StockRunIntraday(bronze, market, today)
    /\ Did("stock_intraday")
    /\ UNCHANGED <<today, market, silver, gold, ticks, faults, seeds, rebuilds, pending, ti, dagRuns>>

\* python bronze_etl.py with downloads or warehouse queries that raise
StockIngestFault ==
    \E failed \in SUBSET BIG_FIVE_SYMBOLS, startRaises \in BOOLEAN, dedupRaises \in BOOLEAN :
        /\ Cost(failed, startRaises, dedupRaises) >= 1
        /\ faults + Cost(failed, startRaises, dedupRaises) <= MaxFaults
        /\ faults' = faults + Cost(failed, startRaises, dedupRaises)
        /\ bronze' = StockRun(bronze, market, today, failed, startRaises, dedupRaises)
        /\ Ran("stock", failed)
        /\ UNCHANGED <<today, market, silver, gold, ticks, seeds, rebuilds, pending, ti, dagRuns>>

\* python bronze_crypto_etl.py, every external call succeeding
CryptoIngest ==
    /\ bronze' = CryptoRun(bronze, market, today, {}, FALSE, FALSE)
    /\ Did("crypto")
    /\ UNCHANGED <<today, market, silver, gold, ticks, faults, seeds, rebuilds, pending, ti, dagRuns>>

\* python bronze_crypto_etl.py with requests or warehouse queries that raise
CryptoIngestFault ==
    \E failed \in SUBSET CRYPTO_SYMBOLS, startRaises \in BOOLEAN, dedupRaises \in BOOLEAN :
        /\ Cost(failed, startRaises, dedupRaises) >= 1
        /\ faults + Cost(failed, startRaises, dedupRaises) <= MaxFaults
        /\ faults' = faults + Cost(failed, startRaises, dedupRaises)
        /\ bronze' = CryptoRun(bronze, market, today, failed, startRaises, dedupRaises)
        /\ Ran("crypto", failed)
        /\ UNCHANGED <<today, market, silver, gold, ticks, seeds, rebuilds, pending, ti, dagRuns>>

\* python seed_feb4_real.py
Seed ==
    /\ seeds < MaxSeeds
    /\ today >= SEED_DAY
    /\ seeds' = seeds + 1
    /\ bronze' = SeedRun(bronze, market, today)
    /\ Did("seed")
    /\ UNCHANGED <<today, market, silver, gold, ticks, faults, rebuilds, pending, ti, dagRuns>>

\* python silver_etl.py
SilverETL ==
    /\ silver' = SilverRun(bronze, silver, today)
    /\ Did("silver")
    /\ UNCHANGED <<today, market, bronze, gold, ticks, faults, seeds, rebuilds, pending, ti, dagRuns>>

\* python gold_etl.py, ending with gold_exit_status
GoldETL ==
    /\ gold' = run_gold_etl(silver, gold, today)
    /\ Did("gold")
    /\ UNCHANGED <<today, market, bronze, silver, ticks, faults, seeds, rebuilds, pending, ti, dagRuns>>

\* python rebuild_silver.py: delete_table, then silver_etl.main
RebuildSilver ==
    /\ rebuilds < MaxRebuilds
    /\ rebuilds' = rebuilds + 1
    /\ silver' = SilverRun(bronze, EmptyBag, today)
    /\ Did("rebuild_silver")
    /\ UNCHANGED <<today, market, bronze, gold, ticks, faults, seeds, pending, ti, dagRuns>>

\* python rebuild_gold.py: delete_table, then gold_etl.run_gold_etl, ending
\* with gold_exit_status
RebuildGold ==
    /\ rebuilds < MaxRebuilds
    /\ rebuilds' = rebuilds + 1
    /\ gold' = run_gold_etl(silver, EmptyBag, today)
    /\ Did("rebuild_gold")
    /\ UNCHANGED <<today, market, bronze, silver, ticks, faults, seeds, pending, ti, dagRuns>>

\* one run of the DAG big_five_daily_etl: bronze_etl >> silver_etl >> gold_etl,
\* the last task ending with gold_exit_status
DagRun ==
    /\ bronze' = StockRun(bronze, market, today, {}, FALSE, FALSE)
    /\ silver' = SilverRun(bronze', silver, today)
    /\ gold' = run_gold_etl(silver', gold, today)
    /\ Did("dag")
    /\ UNCHANGED <<today, market, ticks, faults, seeds, rebuilds, pending, ti, dagRuns>>

\* python silver_etl.py with one warehouse call raising, the Bronze date scan
\* included
SilverETLFaultAt ==
    \E point \in {"scan"} \cup SilverFailPoints :
        /\ faults < MaxFaults
        /\ point # "scan" => SilverReaches(bronze, silver, today, point)
        /\ faults' = faults + 1
        /\ LET run == silver_main(bronze, silver, today, point)
           IN /\ silver' = run.silver
              /\ Ran(SilverOutcome(run), {point})
        /\ UNCHANGED <<today, market, bronze, gold, ticks, seeds, rebuilds, pending, ti, dagRuns>>

\* python silver_etl.py, exiting non-zero
SilverETLFault ==
    \E point \in SilverFailPoints :
        /\ faults < MaxFaults
        /\ SilverReaches(bronze, silver, today, point)
        /\ faults' = faults + 1
        /\ silver' = SilverFailed(bronze, silver, today, point)
        /\ Did("silver_failed")
        /\ UNCHANGED <<today, market, bronze, gold, ticks, seeds, rebuilds, pending, ti, dagRuns>>

\* python gold_etl.py, exiting non-zero
GoldETLFault ==
    /\ faults < MaxFaults
    /\ faults' = faults + 1
    /\ gold' = GoldFailed(gold)
    /\ Did("gold_failed")
    /\ UNCHANGED <<today, market, bronze, silver, ticks, seeds, rebuilds, pending, ti, dagRuns>>

\* python rebuild_silver.py, exiting non-zero: delete_table raised, or the
\* table was dropped and silver_etl.main failed
RebuildSilverFault ==
    \E point \in {"delete"} \cup SilverFailPoints :
        /\ faults < MaxFaults
        /\ rebuilds < MaxRebuilds
        /\ point # "delete" => SilverReaches(bronze, EmptyBag, today, point)
        /\ faults' = faults + 1
        /\ rebuilds' = rebuilds + 1
        /\ silver' = IF point = "delete" THEN silver
                     ELSE SilverFailed(bronze, EmptyBag, today, point)
        /\ Did("rebuild_silver_failed")
        /\ UNCHANGED <<today, market, bronze, gold, ticks, seeds, pending, ti, dagRuns>>

\* python rebuild_gold.py, exiting non-zero: delete_table raised, or the
\* table was dropped and run_gold_etl failed
RebuildGoldFault ==
    \E point \in {"delete", "merge"} :
        /\ faults < MaxFaults
        /\ rebuilds < MaxRebuilds
        /\ faults' = faults + 1
        /\ rebuilds' = rebuilds + 1
        /\ gold' = IF point = "delete" THEN gold ELSE GoldFailed(EmptyBag)
        /\ Did("rebuild_gold_failed")
        /\ UNCHANGED <<today, market, bronze, silver, ticks, seeds, pending, ti, dagRuns>>

\* bronze_etl.main reads its start date, fetches, and deduplicates against
\* Bronze; the batch is not loaded yet
IngestBegin(p) ==
    /\ pending[p] = NULL
    /\ pending' = [pending EXCEPT ![p] =
                        Some(StockBatch(bronze, market, today, {}, FALSE, FALSE))]
    /\ Did("begin")
    /\ UNCHANGED <<today, market, bronze, silver, gold, ticks, faults, seeds,
                   rebuilds, ti, dagRuns>>

\* the script loads its batch: load_to_bigquery
IngestLoad(p) ==
    /\ pending[p] # NULL
    /\ bronze' = load_to_bigquery(bronze, Val(pending[p]))
    /\ pending' = [pending EXCEPT ![p] = NULL]
    /\ Did("load")
    /\ UNCHANGED <<today, market, silver, gold, ticks, faults, seeds, rebuilds, ti, dagRuns>>

\* the scheduler creates the DAG run of the day: one instance per task
DagTrigger ==
    /\ dagRuns < MaxDagRuns
    /\ \A t \in DagTasks : ti[t].state = "none" \/ Finished(ti[t])
    /\ dagRuns' = dagRuns + 1
    /\ ti' = [t \in DagTasks |-> [state |-> "scheduled", try_number |-> 0]]
    /\ Did("dag_trigger")
    /\ UNCHANGED <<today, market, bronze, silver, gold, ticks, faults, seeds,
                   rebuilds, pending>>

\* the scheduler starts a task whose upstream tasks have all succeeded
TaskStart(t) ==
    /\ ti[t].state \in {"scheduled", "up_for_retry"}
    /\ \A u \in Upstream(t) : ti[u].state = "success"
    /\ ti' = [ti EXCEPT ![t].state = "running",
                        ![t].try_number = ti[t].try_number + 1]
    /\ Did("task_start")
    /\ UNCHANGED <<today, market, bronze, silver, gold, ticks, faults, seeds,
                   rebuilds, pending, dagRuns>>

\* the pod of a task runs its script, which exits with 0
TaskSuccess(t) ==
    /\ ti[t].state = "running"
    /\ t = "gold_etl" => gold_exit_status = 0
    /\ ti' = [ti EXCEPT ![t].state = "success"]
    /\ bronze' = IF t = "bronze_etl"
                 THEN StockRun(bronze, market, today, {}, FALSE, FALSE) ELSE bronze
    /\ silver' = IF t = "silver_etl" THEN SilverRun(bronze, silver, today) ELSE silver
    /\ gold' = IF t = "gold_etl" THEN run_gold_etl(silver, gold, today) ELSE gold
    /\ Did("task_success")
    /\ UNCHANGED <<today, market, ticks, faults, seeds, rebuilds, pending, dagRuns>>

\* the pod of a task fails: the task is retried until its retries are used up
TaskFail(t) ==
    /\ ti[t].state = "running"
    /\ ti' = [ti EXCEPT ![t].state =
                  IF ti[t].try_number <= RETRIES THEN "up_for_retry" ELSE "failed"]
    /\ \E point \in SilverFailPoints :
         /\ SilverReaches(bronze, silver, today, point)
         /\ silver' = IF t = "silver_etl"
                      THEN SilverFailed(bronze, silver, today, point) ELSE silver
    /\ Did("task_failed")
    /\ UNCHANGED <<today, market, bronze, gold, ticks, faults, seeds, rebuilds,
                   pending, dagRuns>>

\* a task whose upstream task failed is not run
TaskUpstreamFailed(t) ==
    /\ ti[t].state = "scheduled"
    /\ \E u \in Upstream(t) : ti[u].state \in {"failed", "upstream_failed"}
    /\ ti' = [ti EXCEPT ![t].state = "upstream_failed"]
    /\ Did("task_upstream_failed")
    /\ UNCHANGED <<today, market, bronze, silver, gold, ticks, faults, seeds,
                   rebuilds, pending, dagRuns>>

\* the pipeline, every external call succeeding
Next ==
    \/ Tick
    \/ StockIngest
    \/ SilverETL
    \/ GoldETL
    \/ RebuildSilver
    \/ RebuildGold

Spec == Init /\ [][Next]_vars

\* ingestion into Bronze, with failing external calls
NextBronze ==
    \/ Tick
    \/ StockIngest
    \/ StockIngestFault
    \/ CryptoIngest
    \/ CryptoIngestFault
    \/ Seed

SpecBronze == Init /\ [][NextBronze]_vars

\* stock ingestion runs before and after the close of the session, and the
\* Silver runs that read them
NextIntraday ==
    \/ Tick
    \/ StockIngest
    \/ StockIngestIntraday
    \/ SilverETL

SpecIntraday == Init /\ [][NextIntraday]_vars

\* the scheduled pipeline: DAG runs, with the crypto ingestion and Silver runs
\* that happen apart from the DAG
NextDag ==
    \/ Tick
    \/ DagRun
    \/ CryptoIngest
    \/ SilverETL

SpecDag == Init /\ [][NextDag]_vars

\* Silver runs over a Bronze that receives daily bars and the seeded bar
NextLate ==
    \/ Tick
    \/ StockIngest
    \/ Seed
    \/ SilverETL

SpecLate == Init /\ [][NextLate]_vars

\* Silver runs over a Bronze whose ingestion runs meet failing external calls
NextDup ==
    \/ Tick
    \/ StockIngest
    \/ StockIngestFault
    \/ Seed
    \/ SilverETL

SpecDup == Init /\ [][NextDup]_vars

\* the Gold query computing rsi_14 row by row over drawn daily returns
NextRsi == AppendReturn

SpecRsi == Init /\ [][NextRsi]_vars

\* the realtime poller polling its tickers
NextPoller ==
    \/ PollerTick
    \/ \E t \in BIG_FIVE_TICKERS : Poll(t)

SpecPoller == Init /\ [][NextPoller]_vars

\* the request threads of the API process calling check_daily_limit
NextApi ==
    \/ Midnight
    \/ \E h \in Threads : LimitEnter(h)
    \/ \E h \in Threads : LimitDate(h)
    \/ \E h \in Threads : LimitTest(h)
    \/ \E h \in Threads : LimitLoad(h)
    \/ \E h \in Threads : LimitStore(h)

SpecApi == Init /\ [][NextApi]_vars

\* the pipeline with Silver, Gold and rebuild runs that exit non-zero
NextFail ==
    \/ Tick
    \/ StockIngest
    \/ SilverETL
    \/ GoldETL
    \/ SilverETLFault
    \/ GoldETLFault
    \/ RebuildSilverFault
    \/ RebuildGoldFault

SpecFail == Init /\ [][NextFail]_vars

\* ingestion and Silver runs, a Silver run's warehouse calls raising one at a time
NextScan ==
    \/ Tick
    \/ StockIngest
    \/ SilverETL
    \/ SilverETLFaultAt

SpecScan == Init /\ [][NextScan]_vars

\* two ingestion scripts running at the same time
NextConc ==
    \/ Tick
    \/ \E p \in Procs : IngestBegin(p)
    \/ \E p \in Procs : IngestLoad(p)

SpecConc == Init /\ [][NextConc]_vars

\* the DAG run task by task, as the scheduler executes it
NextSched ==
    \/ Tick
    \/ DagTrigger
    \/ \E t \in DagTasks : TaskStart(t)
    \/ \E t \in DagTasks : TaskSuccess(t)
    \/ \E t \in DagTasks : TaskFail(t)
    \/ \E t \in DagTasks : TaskUpstreamFailed(t)

SpecSched == Init /\ [][NextSched]_vars

-----------------------------------------------------------------------------
(* Properties *)

SilverRan == lastOp \in {"silver", "rebuild_silver"}
GoldRan == lastOp \in {"gold", "rebuild_gold"}

\* the greatest trade_date of a table, NULL when the table is empty
MaxTradeDate(tbl) ==
    IF Rows(tbl) = {} THEN NULL
    ELSE Some(MaxOf({r.trade_date : r \in Rows(tbl)}))

\* the rows a step wrote: those with more copies after than before
Written(before, after) ==
    {r \in Rows(after) : CopiesIn(r, after) > CopiesIn(r, before)}

\* the rows of a table, without the processing time they carry
Data(tbl) == {[r EXCEPT !.ingested_at = 0] : r \in Rows(tbl)}

\* a table restricted to one ticker
OfTicker(tbl, t) ==
    LET S == {r \in BagToSet(tbl) : r.ticker = t}
    IN [r \in S |-> CopiesIn(r, tbl)] (+) EmptyBag

\* Bronze restricted to the bars dated on or before day d
BronzeUpTo(bz, d) ==
    LET S == {b \in BronzeRows(bz) : DATE(b.timestamp) <= d}
    IN [b \in S |-> CopiesIn(b, bz)] (+) EmptyBag

\* Silver restricted to the rows dated on or before day d
SilverUpTo(sv, d) ==
    LET S == {r \in Rows(sv) : r.trade_date <= d}
    IN [r \in S |-> CopiesIn(r, sv)] (+) EmptyBag

\* C1: after any sequence of stock, crypto and seed ingestion runs, Bronze
\* holds at most one row for any (timestamp, ticker) pair.
C1_BronzeKeyUnique ==
    \A k \in BronzeKeys(bronze) : KeyCount(bronze, k) <= 1

\* C2: a Silver or Gold run that directly follows a run of the same stage,
\* with nothing changed upstream in between, adds no row to the stage's table
\* and leaves the table's greatest trade_date as it was.
C2_RepeatedRunAddsNothing ==
    [][again' =>
         /\ BagCardinality(silver') = BagCardinality(silver)
         /\ Keys(silver') = Keys(silver)
         /\ MaxTradeDate(silver') = MaxTradeDate(silver)
         /\ BagCardinality(gold') = BagCardinality(gold)
         /\ Keys(gold') = Keys(gold)
         /\ MaxTradeDate(gold') = MaxTradeDate(gold)]_vars

\* a Silver run has just been repeated on a Silver table that holds rows
\* computed from today's bars
C2_Witness ==
    /\ again /\ lastOp = "silver"
    /\ \E r \in Rows(silver) : r.trade_date = today /\ r.ingested_at = today

\* dropping Silver and Gold and running both stages once over Bronze
FullRebuild(bz, now) ==
    run_gold_etl(SilverRun(bz, EmptyBag, now), EmptyBag, now)

\* Gold was accumulated by incremental runs only and is up to date: no
\* rebuild has run, Bronze holds today's bars, Silver has processed all of
\* Bronze today, and Gold ran last
Accumulated ==
    /\ lastOp = "gold"
    /\ rebuilds = 0
    /\ \E b \in BronzeRows(bronze) : DATE(b.timestamp) = today
    /\ SilverRun(bronze, silver, today) = silver

\* C3: the Gold rows accumulated by incremental runs equal the Gold rows a
\* full rebuild from the same Bronze history produces, and they include the
\* row of the latest day of every ticker that has a bar on it.
C3_RebuildEqualsIncremental ==
    Accumulated =>
        /\ Data(gold) = Data(FullRebuild(bronze, today))
        /\ \A b \in BronzeRows(bronze) :
             DATE(b.timestamp) = today => <<today, b.ticker>> \in Keys(gold)

\* C4: after a Silver run, every (date, ticker) with a Bronze bar has a
\* Silver row.
C4_SilverCoversBronze ==
    SilverRan =>
        {<<DATE(b.timestamp), b.ticker>> : b \in BronzeRows(bronze)} \subseteq Keys(silver)

\* C5: after a Gold run, every (trade_date, ticker) of Silver has a Gold row.
C5_GoldCoversSilver ==
    GoldRan => Keys(silver) \subseteq Keys(gold)

\* C6: the values a Silver or Gold run stores for ticker T on date D are those
\* the run computes from the rows dated on or before D alone.
C6_NoLookahead ==
    [][/\ SilverRan' =>
            \A r \in Written(silver, silver') :
                r \in build_incremental_sql(BronzeUpTo(bronze, r.trade_date),
                                            get_last_trade_date(silver, today), today)
       /\ GoldRan' =>
            \A r \in Written(gold, gold') :
                r \in GoldSource(SilverUpTo(silver, r.trade_date), today)]_vars

\* C7: the rows a Silver or Gold run leaves for a ticker are those the run
\* leaves when the rows of every other ticker are absent from its input and
\* its table.
C7_PartitionIsolation ==
    [][\A t \in Tickers :
         /\ lastOp' = "silver" =>
              OfTicker(silver', t) =
                  SilverRun(OfTicker(bronze, t), OfTicker(silver, t), today)
         /\ lastOp' = "rebuild_silver" =>
              OfTicker(silver', t) = SilverRun(OfTicker(bronze, t), EmptyBag, today)
         /\ lastOp' = "gold" =>
              OfTicker(gold', t) =
                  run_gold_etl(OfTicker(silver, t), OfTicker(gold, t), today)
         /\ lastOp' = "rebuild_gold" =>
              OfTicker(gold', t) = run_gold_etl(OfTicker(silver, t), EmptyBag, today)]_vars

\* a Silver run has left rows with window values for both stock tickers, whose
\* prices differ
C7_Witness ==
    /\ lastOp = "silver"
    /\ \A t \in BIG_FIVE_SYMBOLS :
         \E r \in Rows(silver) :
             r.ticker = t /\ ~IsNull(r.bb_upper) /\ ~IsNull(r.ema_12)
    /\ \E r1, r2 \in Rows(silver) :
         /\ r1.trade_date = r2.trade_date /\ r1.ticker # r2.ticker
         /\ r1.bb_middle # r2.bb_middle

\* the position of a Gold row among the Gold rows of its ticker, by date
GoldRank(r) ==
    Cardinality({x \in Rows(gold) : x.ticker = r.ticker /\ x.trade_date <= r.trade_date})

\* the position of a Silver row among the Silver rows of its ticker, by date
SilverRank(r) ==
    Cardinality({x \in Rows(silver) : x.ticker = r.ticker /\ x.trade_date <= r.trade_date})

\* the Silver rows a Gold run on day `now` selects by date
InGoldWindow(now) == {s \in Rows(silver) : s.trade_date > now - GOLD_LOOKBACK_DAYS}

\* the Gold rows stored under the key of row s
GoldOf(s) == {g \in Rows(gold) : RowKey(g) = RowKey(s)}

\* C8: in Gold, ma_20 (ma_50) is null on the first 19 (49) rows of a ticker
\* and non-null from the ticker's 20th (50th) row on: after a Gold run, the
\* 20th and later daily rows of a ticker that the run selects are in Gold
\* with a non-null ma_20.
C8_MovingAverageWarmup ==
    GoldRan =>
        /\ \A r \in Rows(gold) :
             /\ IsNull(r.ma_20) <=> GoldRank(r) <= 19
             /\ IsNull(r.ma_50) <=> GoldRank(r) <= 49
        /\ \A s \in InGoldWindow(today) :
             SilverRank(s) >= 20 => \E g \in GoldOf(s) : ~IsNull(g.ma_20)

\* the date boundary a Gold run selects new rows by
gold_boundary(now) == Some(now - GOLD_LOOKBACK_DAYS)

\* C9: the boundary a stage selects new rows by never decreases from one run
\* to the next, and after a run it equals the greatest trade_date in the
\* stage's table.
C9_WatermarkIsTableMax ==
    [][/\ SilverRan' =>
            /\ Val(get_last_trade_date(silver', today')) >=
                   Val(get_last_trade_date(silver, today))
            /\ silver' # EmptyBag =>
                   get_last_trade_date(silver', today') = MaxTradeDate(silver')
       /\ GoldRan' =>
            /\ Val(gold_boundary(today')) >= Val(gold_boundary(today))
            /\ gold' # EmptyBag => gold_boundary(today') = MaxTradeDate(gold')]_vars

\* the rows of a table that hold key k, with their multiplicity
OfKey(tbl, k) ==
    LET S == {r \in Rows(tbl) : RowKey(r) = k}
    IN [r \in S |-> CopiesIn(r, tbl)] (+) EmptyBag

\* C12: after every step Silver holds at most one row per (trade_date,
\* ticker), and a Silver run that computes a row for a key Silver already
\* holds leaves exactly that computed row under the key.
C12_SilverUpsert ==
    [][/\ BagCardinality(silver') = Cardinality(Keys(silver'))
       /\ lastOp' = "silver" =>
            \A s \in build_incremental_sql(bronze, get_last_trade_date(silver, today),
                                           today) :
                RowKey(s) \in Keys(silver) => OfKey(silver', RowKey(s)) = SetToBag({s})]_vars

\* a Silver run has recomputed, from a Bronze day with two bars, a key that
\* the Silver run before it had already written
C12_Witness ==
    /\ again /\ lastOp = "silver"
    /\ \E r \in Rows(silver) :
         /\ r.trade_date > today - LOOKBACK_DAYS
         /\ \E b1, b2 \in BronzeRows(bronze) :
              /\ b1 # b2 /\ b1.ticker = r.ticker /\ b2.ticker = r.ticker
              /\ DATE(b1.timestamp) = r.trade_date /\ DATE(b2.timestamp) = r.trade_date

\* the Bronze bars of ticker t dated day d
BarsOf(bz, t, d) == {b \in BronzeRows(bz) : b.ticker = t /\ DATE(b.timestamp) = d}

\* the Silver row of (d, t) carries the close of the day's latest bar and the
\* volume of all the day's bars
Reflects(r, bz) ==
    LET bars == BarsOf(bz, r.ticker, r.trade_date)
        latest == CHOOSE b \in bars : \A o \in bars : TsLE(o.timestamp, b.timestamp)
    IN /\ r.close = latest.close
       /\ r.total_volume = SumSet(bars, [b \in bars |-> b.volume * CopiesIn(b, bz)])

\* C13: after a Silver run, the Silver rows of the day that was Silver's
\* greatest trade_date before the run carry the close of that day's latest
\* Bronze bar and the volume summed over all of that day's bars, whenever the
\* bars arrived and however long ago the previous Silver run was.
C13_BoundaryDayCorrected ==
    [][(lastOp' = "silver" /\ silver # EmptyBag) =>
         \A r \in Rows(silver') :
             r.trade_date = Val(MaxTradeDate(silver)) => Reflects(r, bronze)]_vars

\* C14: a Silver run, a Gold run or a rebuild that exits non-zero leaves the
\* table of its stage exactly as it was before the run started.
C14_FailedRunLeavesTable ==
    [][/\ lastOp' \in {"silver_failed", "rebuild_silver_failed"} => silver' = silver
       /\ lastOp' \in {"gold_failed", "rebuild_gold_failed"} => gold' = gold]_vars

\* the days of the bars a crypto run asks the source for, for ticker t
CryptoDays(bz, t, now) ==
    LET start == get_start_date_for_crypto(bz, t, now, FALSE)
        days == Max(1, Min((now - start) + 1, COINGECKO_MAX_DAYS))
    IN SrcDays(now - days + 1, now)

\* C15: when the fetch of some symbols raises in a stock or crypto ingestion
\* run, every bar the source has for each other symbol, from the run's start
\* day on, is in Bronze after the run: it was there before or the run
\* appended it.
C15_FetchFailureIsolated ==
    [][lastFailed' # {} =>
         /\ lastOp' = "stock" =>
              \A t \in BIG_FIVE_SYMBOLS \ lastFailed' :
                  \A d \in TradingDays(get_start_date(bronze, today, FALSE), today) :
                      LET b == StockBar(market, t, d, today)
                      IN KeyOf(b) \in BronzeKeys(bronze) \/ b \in BronzeRows(bronze')
         /\ lastOp' = "crypto" =>
              \A t \in CRYPTO_SYMBOLS \ lastFailed' :
                  \A d \in CryptoDays(bronze, t, today) :
                      LET b == CryptoBar(market, t, d, today)
                      IN KeyOf(b) \in BronzeKeys(bronze) \/ b \in BronzeRows(bronze')]_vars

\* an ingestion run in which the fetch of one symbol raised has left Bronze
\* with today's bar of another symbol of the same script, ingested today, and
\* with no bar of today for the failed symbol
C15_Witness ==
    /\ lastOp \in {"stock", "crypto"}
    /\ \E f \in lastFailed :
         /\ BarsOf(bronze, f, today) = {}
         /\ \E b \in BronzeRows(bronze) :
              /\ b.ticker \notin lastFailed
              /\ (b.ticker \in CRYPTO_SYMBOLS) = (f \in CRYPTO_SYMBOLS)
              /\ DATE(b.timestamp) = today /\ b.ingested_at = today

\* C16: an ingestion run deletes and modifies no Bronze row: every row Bronze
\* held before the run is in Bronze after it, with the same field values and
\* at least as many copies.
C16_BronzeAppendOnly ==
    [][lastOp' \in {"stock", "crypto", "seed"} =>
         \A b \in BronzeRows(bronze) : CopiesIn(b, bronze') >= CopiesIn(b, bronze)]_vars

\* an ingestion run has appended rows today to a Bronze that holds rows
\* ingested on an earlier day
C16_Witness ==
    /\ lastOp \in {"stock", "crypto", "seed"}
    /\ \E b1, b2 \in BronzeRows(bronze) :
         b1.ingested_at < today /\ b2.ingested_at = today

\* the days the source has within the default lookback of 6 months
DefaultDays(now) == SrcDays(now - LOOKBACK_MONTHS * 30, now)

\* C17: when Bronze holds no row of a symbol at the start of an ingestion run
\* whose fetches all succeed, Bronze holds after the run the symbol's bar of
\* every day of the default 6-month lookback, whatever rows the other symbols
\* of the run have.
C17_EmptySymbolFallback ==
    [][lastFailed' = {} =>
         /\ lastOp' = "stock" =>
              \A t \in BIG_FIVE_SYMBOLS :
                  (\A b \in BronzeRows(bronze) : b.ticker # t) =>
                      \A d \in DefaultDays(today) \ MarketClosed :
                          <<<<d, 0>>, t>> \in BronzeKeys(bronze')
         /\ lastOp' = "crypto" =>
              \A t \in CRYPTO_SYMBOLS :
                  (\A b \in BronzeRows(bronze) : b.ticker # t) =>
                      \A d \in DefaultDays(today) : <<<<d, 0>>, t>> \in BronzeKeys(bronze')]_vars

\* C18: with two ingestion runs executing at the same time, Bronze never holds
\* two rows with the same (timestamp, ticker), however their deduplication
\* reads and their loads interleave.
C18_ConcurrentKeyUnique ==
    BagCardinality(bronze) = Cardinality(BronzeKeys(bronze))

\* C19: after rebuild_silver, Silver holds a row for every (date, ticker) of
\* the whole Bronze history; after rebuild_gold, Gold holds a row for every
\* (trade_date, ticker) of the whole of Silver.
C19_RebuildCoversHistory ==
    /\ lastOp = "rebuild_silver" =>
         {<<DATE(b.timestamp), b.ticker>> : b \in BronzeRows(bronze)} \subseteq Keys(silver)
    /\ lastOp = "rebuild_gold" => Keys(silver) \subseteq Keys(gold)

\* a task instance has been started at least once in the current DAG run
Started(t) == ti[t].try_number > 0

\* C20: in a DAG run, bronze_etl is started only after resolve_latest_image
\* has succeeded, silver_etl only after bronze_etl has succeeded and gold_etl
\* only after silver_etl has succeeded; while gold_etl runs, silver_etl is
\* neither waiting nor running.
C20_StagesInOrder ==
    /\ Started("bronze_etl") => ti["resolve_latest_image"].state = "success"
    /\ Started("silver_etl") => ti["bronze_etl"].state = "success"
    /\ Started("gold_etl") => ti["silver_etl"].state = "success"
    /\ ti["gold_etl"].state = "running" =>
         ti["silver_etl"].state \notin {"scheduled", "running", "up_for_retry"}

\* gold_etl is running in a DAG run whose silver_etl task failed once, was
\* retried and has merged rows into Silver
C20_Witness ==
    /\ ti["gold_etl"].state = "running"
    /\ ti["silver_etl"].try_number > 1
    /\ silver # EmptyBag

\* the number of calls the last ingestion run made to the source for symbol t
FetchCalls(op, t) ==
    IF op = "stock" THEN download_calls(t) ELSE requests_get_calls(t)

\* C21: in an ingestion run, a symbol whose fetch failed was fetched again at
\* least once before the run skipped it.
C21_FailedFetchRetried ==
    [][(lastOp' \in {"stock", "crypto"} /\ lastFailed' # {}) =>
         \A t \in lastFailed' : FetchCalls(lastOp', t) >= 2]_vars

\* C22: rsi_14 is null on every Gold row that has fewer than 14 daily rows of
\* its ticker up to its date, and after a Gold run the 14th and later daily
\* rows of a ticker that the run selects are in Gold with a non-null rsi_14.
C22_RsiWarmup ==
    GoldRan =>
        /\ \A r \in Rows(gold) : GoldRank(r) < 14 => IsNull(r.rsi_14)
        /\ \A s \in InGoldWindow(today) :
             SilverRank(s) >= 14 => \E g \in GoldOf(s) : ~IsNull(g.rsi_14)

\* C23: every Silver or Gold row with a non-null bb_upper has
\* bb_upper >= bb_middle >= bb_lower and bb_width >= 0.
C23_BandsOrdered ==
    \A r \in Rows(silver) \cup Rows(gold) :
        ~IsNull(r.bb_upper) =>
            /\ ~IsNull(r.bb_middle) /\ ~IsNull(r.bb_lower) /\ ~IsNull(r.bb_width)
            /\ Val(r.bb_upper) >= Val(r.bb_middle)
            /\ Val(r.bb_middle) >= Val(r.bb_lower)
            /\ Val(r.bb_width) >= 0

\* a Silver run has written a row whose bands are computed over a full
\* window of 20 closes that are not all equal: the bands lie apart
C23_Witness ==
    /\ lastOp = "silver"
    /\ \E r \in Rows(silver) :
         /\ SilverRank(r) >= 20 /\ ~IsNull(r.bb_upper)
         /\ Val(r.bb_upper) > Val(r.bb_middle) /\ Val(r.bb_width) > 0

\* C24: the Silver row a run writes for a (date, ticker) group of Bronze bars
\* has the open of the group's earliest bar, the close of its latest bar, the
\* greatest high, the least low, and as total_volume the sum of the volumes
\* of the group's bars, the bar of each timestamp counted once.
C24_DailyAggregates ==
    [][SilverRan' =>
         \A r \in Written(silver, silver') :
             LET g == BarsOf(bronze, r.ticker, r.trade_date)
                 tss == {b.timestamp : b \in g}
                 bar(ts) == CHOOSE b \in g : b.timestamp = ts
             IN /\ g # {}
                /\ r.open = bar(MinTs(tss)).open
                /\ r.close = bar(MaxTs(tss)).close
                /\ r.high = MaxOf({b.high : b \in g})
                /\ r.low = MinOf({b.low : b \in g})
                /\ r.total_volume = SumSet(tss, [ts \in tss |-> bar(ts).volume])]_vars

\* the daily rows of ticker t over the whole of Bronze, by date
History(bz, t, now) == DailyOf(bz, NULL, t, now)

\* the position of day d in a sequence of daily rows, 0 when it has no row
PosOf(ds, d) ==
    IF \E i \in 1..Len(ds) : ds[i].trade_date = d
    THEN CHOOSE i \in 1..Len(ds) : ds[i].trade_date = d
    ELSE 0

\* C25: the daily_return a Silver run stores for (T, D) is
\* (close - prev_close) / prev_close, prev_close being the close of the
\* latest day before D on which T has a bar, and it is 0 when T has no
\* earlier day.
C25_DailyReturn ==
    [][SilverRan' =>
         \A r \in Written(silver, silver') :
             LET ds == History(bronze, r.ticker, today)
                 i == PosOf(ds, r.trade_date)
             IN /\ i > 0
                /\ r.daily_return =
                       IF i = 1 THEN Some(0)
                       ELSE SAFE_DIVIDE(ds[i].close - ds[i - 1].close, ds[i - 1].close)]_vars

\* C26: after a Gold run every daily row of a ticker that the run selects is
\* in Gold, and the cumulative_return of a Gold row of (T, D) is the sum of
\* the daily_return of the Gold rows of T dated on or before D.
C26_CumulativeReturn ==
    GoldRan =>
        /\ \A s \in InGoldWindow(today) : GoldOf(s) # {}
        /\ \A g \in Rows(gold) :
             LET upTo == {x \in Rows(gold) :
                            x.ticker = g.ticker /\ x.trade_date <= g.trade_date}
             IN g.cumulative_return = SumSet(upTo, [x \in upTo |-> x.daily_return])

\* the rows of ticker t with the indicators computed over the whole of Bronze
OverFullHistory(bz, t, now) ==
    LET rows == SilverIndicators(History(bz, t, now))
    IN {rows[i] : i \in 1..Len(rows)}

\* C27: every row an incremental Silver run writes carries the indicators
\* computed over the ticker's whole history in Bronze at the time of the run.
C27_FullHistoryWindows ==
    [][lastOp' = "silver" =>
         \A r \in Written(silver, silver') :
             r \in OverFullHistory(bronze, r.ticker, today)]_vars

\* the closes of the n daily rows of ds that end with row i, the latest first:
\* entry k + 1 is the close k rows before row i
Trailing(ds, i, n) == Tuple([k \in 1..n |-> ds[i - k + 1].close])

\* C28: a non-null ema_12 (ema_26) that a Silver run stores for (T, D) is the
\* weighted average of the closes of T on its 12 (26) latest days up to and
\* including D, the close k rows before D weighted by decay^k.
C28_EmaTrailingWindow ==
    [][SilverRan' =>
         \A r \in Written(silver, silver') :
             LET ds == History(bronze, r.ticker, today)
                 i == PosOf(ds, r.trade_date)
             IN /\ ~IsNull(r.ema_12) =>
                     /\ i >= 12
                     /\ Val(r.ema_12) = WeightedAvg(Trailing(ds, i, 12), POW_11_13)
                /\ ~IsNull(r.ema_26) =>
                     /\ i >= 26
                     /\ Val(r.ema_26) = WeightedAvg(Trailing(ds, i, 26), POW_25_27)]_vars

\* C29: on a row a Silver run writes, ema_12, ema_26 and macd_line are null
\* when the row is before the ticker's 12th, 26th and 26th daily row, and
\* non-null from that row on, the latest rows included.
C29_EmaWarmup ==
    [][SilverRan' =>
         \A r \in Written(silver, silver') :
             LET i == PosOf(History(bronze, r.ticker, today), r.trade_date)
             IN /\ IsNull(r.ema_12) <=> i < 12
                /\ IsNull(r.ema_26) <=> i < 26
                /\ IsNull(r.macd_line) <=> i < 26]_vars

\* C30: a row a Silver run writes has a non-null macd_signal only if it is
\* the ticker's 34th daily row or a later one and the ticker's 9 latest rows
\* up to it all carry a non-null macd_line.
C30_SignalWindowComplete ==
    [][SilverRan' =>
         \A r \in Written(silver, silver') :
             ~IsNull(r.macd_signal) =>
                 LET ds == History(bronze, r.ticker, today)
                     i == PosOf(ds, r.trade_date)
                 IN /\ i >= 34
                    /\ \A k \in (i - 8)..i :
                         \E x \in Rows(silver') :
                             /\ x.ticker = r.ticker
                             /\ x.trade_date = ds[k].trade_date
                             /\ ~IsNull(x.macd_line)]_vars

\* the number of days up to and including the date of row r on which the
\* ticker of r has a Bronze bar
DailyRowsUpTo(r) ==
    Cardinality({DATE(b.timestamp) : b \in
        {x \in BronzeRows(bronze) :
            x.ticker = r.ticker /\ DATE(x.timestamp) <= r.trade_date}})

\* C31: a Silver row with fewer than 20 daily rows of its ticker up to and
\* including its date has a null bb_middle, bb_upper, bb_lower, bb_width,
\* vma_20 and volume_ratio.
C31_SilverBandsWarmup ==
    \A r \in Rows(silver) :
        DailyRowsUpTo(r) < 20 =>
            /\ IsNull(r.bb_middle) /\ IsNull(r.bb_upper) /\ IsNull(r.bb_lower)
            /\ IsNull(r.bb_width) /\ IsNull(r.vma_20) /\ IsNull(r.volume_ratio)

\* C32: a Silver run that is not a rebuild leaves every Silver row dated more
\* than one day before Silver's greatest trade_date at the start of the run
\* with the values it had, the processing time set aside.
C32_OldRowsUntouched ==
    [][(lastOp' = "silver" /\ silver # EmptyBag) =>
         \A r \in Rows(silver) :
             r.trade_date < Val(MaxTradeDate(silver)) - 1 =>
                 [r EXCEPT !.ingested_at = 0] \in Data(silver')]_vars

\* the latest day on which a stock symbol has a Bronze bar, NULL when none
LastIngestedDate(bz) ==
    LET ds == {DATE(b.timestamp) : b \in
                 {x \in BronzeRows(bz) : x.ticker \in BIG_FIVE_SYMBOLS}}
    IN IF ds = {} THEN NULL ELSE Some(MaxOf(ds))

\* C33: after a stock ingestion run made once the session of the last
\* ingested date has closed, Bronze holds for that date and every stock
\* symbol a bar with the final close.
C33_FinalCloseIngested ==
    [][(lastOp' = "stock" /\ ~IsNull(LastIngestedDate(bronze))) =>
         LET d == Val(LastIngestedDate(bronze))
         IN \A t \in BIG_FIVE_SYMBOLS :
                BarsOf(bronze, t, d) # {} =>
                    \E b \in BarsOf(bronze', t, d) : b.close = SrcClose(market, t, d)]_vars

\* the rows an incremental or rebuilding Silver run on day `now` computes for
\* ticker t, in date order
Computed(bz, sv, t, now) ==
    SilverIndicators(DailyOf(bz, get_last_trade_date(sv, now), t, now))

\* the weighted averages of the arrays the run builds for row i of rows, with
\* decay n12/d12 for ema_12, n26/d26 for ema_26 and n9/d9 for macd_signal
EmaWithDecay(rows, i, n12, d12, n26, d26, n9, d9) ==
    LET c == Tuple([j \in 1..Len(rows) |-> rows[j].close])
        macd == Tuple([j \in 1..Len(rows) |-> rows[j].macd_line])
    IN [ema_12 |-> WeightedAvg(ArrayAggDesc(c, i, 11), Weights(n12, d12, 12)),
        ema_26 |-> WeightedAvg(ArrayAggDesc(c, i, 25), Weights(n26, d26, 26)),
        macd_signal |-> WeightedAvgNullable(ArrayAggDesc(macd, i, 8),
                                            Weights(n9, d9, 9))]

\* every non-null ema_12, ema_26 and macd_signal a Silver run writes is the
\* weighted average of its array with the given decay factors
DecayIs(n12, d12, n26, d26, n9, d9) ==
    SilverRan' =>
        \A r \in Written(silver, silver') :
            LET rows == Computed(bronze, silver, r.ticker, today)
                e == EmaWithDecay(rows, PosOf(rows, r.trade_date),
                                  n12, d12, n26, d26, n9, d9)
            IN /\ ~IsNull(r.ema_12) => Val(r.ema_12) = e.ema_12
               /\ ~IsNull(r.ema_26) => Val(r.ema_26) = e.ema_26
               /\ ~IsNull(r.macd_signal) => r.macd_signal = e.macd_signal

\* C34 as stated: the weights of ema_12, ema_26 and macd_signal decay by
\* (N - 2) / N per offset: 10/12, 24/26 and 7/9.
C34_DecayNMinus2OverN == [][DecayIs(10, 12, 24, 26, 7, 9)]_vars

\* C34 amended: the weights of ema_12, ema_26 and macd_signal decay by
\* (N - 1) / (N + 1) per offset: 11/13, 25/27 and 8/10.
C34_DecayNMinus1OverNPlus1 == [][DecayIs(11, 13, 25, 27, 8, 10)]_vars

\* a Silver run has written today a row that carries an ema_12, an ema_26 and
\* a macd_signal
C34_Witness ==
    /\ lastOp = "silver"
    /\ \E r \in Rows(silver) :
         /\ r.ingested_at = today
         /\ ~IsNull(r.ema_12) /\ ~IsNull(r.ema_26) /\ ~IsNull(r.macd_signal)

\* the batches the two ingestion scripts fetch when every download succeeds
StockFetched ==
    fetch_stock_data(market, BIG_FIVE_SYMBOLS, get_start_date(bronze, today, FALSE),
                     today, {})

CryptoFetched ==
    UNION {fetch_crypto_data(market, t,
                             get_start_date_for_crypto(bronze, t, today, FALSE),
                             today, FALSE) : t \in CRYPTO_SYMBOLS}

\* the step is an ingestion run of script op whose only fault is the key query
\* of deduplicate_against_bq raising
DedupRaised(op) ==
    /\ lastOp' = op /\ lastFailed' = {} /\ faults' = faults + 1
    /\ bronze' = IF op = "stock"
                 THEN StockRun(bronze, market, today, {}, FALSE, TRUE)
                 ELSE CryptoRun(bronze, market, today, {}, FALSE, TRUE)

\* the step appends every row of batch df to Bronze, and nothing else
AppendsAll(df) ==
    /\ \A b \in df : CopiesIn(b, bronze') = CopiesIn(b, bronze) + 1
    /\ \A b \in BronzeRows(bronze') \ df : CopiesIn(b, bronze') = CopiesIn(b, bronze)
    /\ \A k \in {KeyOf(b) : b \in df} :
         KeyCount(bronze', k) = KeyCount(bronze, k) + 1

\* C35: when the query for the stored keys raises inside deduplicate_against_bq,
\* the ingestion run goes on to its load and appends the whole fetched batch,
\* rows whose (timestamp, ticker) is already in Bronze included.
C35_DedupFailureAppendsAll ==
    [][/\ DedupRaised("stock") => AppendsAll(StockFetched)
       /\ DedupRaised("crypto") => AppendsAll(CryptoFetched)]_vars

\* an ingestion run whose key query raised has completed and has appended
\* today a row whose key Bronze already held
C35_Witness ==
    /\ lastOp \in {"stock", "crypto"} /\ lastFailed = {} /\ faults = 1
    /\ \E b \in BronzeRows(bronze) :
         /\ b.ingested_at = today /\ b.timestamp[2] = 0
         /\ KeyCount(bronze, KeyOf(b)) >= 2

\* C36: a Silver run whose Bronze date scan raises merges nothing, leaves
\* Silver as it was and exits with status 0 after logging that Silver is up to
\* date; a run whose MERGE or whose verification query raises exits with
\* status 1.
C36_ScanFailureEndsNormally ==
    [][/\ lastFailed' = {"scan"} =>
            silver' = silver /\ lastOp' = "silver_exit0_up_to_date"
       /\ (lastFailed' = {"merge"} \/ lastFailed' = {"verify"}) =>
            lastOp' = "silver_exit1_failed"]_vars

\* a Silver run whose date scan raised has ended while Bronze held dates the
\* run would otherwise have merged
C36_Witness ==
    /\ lastFailed = {"scan"}
    /\ lastOp = "silver_exit0_up_to_date"
    /\ get_dates_to_process(bronze, get_last_trade_date(silver, today)) # {}
    /\ SilverRun(bronze, silver, today) # silver

\* C37: every non-null rsi_14 the Gold query computes lies between 0 and 100
\* inclusive, whatever the 14 daily returns of its frame are.
C37_RsiInRange ==
    ~IsNull(rsi) => 0 <= Val(rsi) /\ Val(rsi) <= 100 * Scale

\* an rsi_14 strictly between 0 and 100 has been computed over a frame of 14
\* rows that holds gains and losses
C37_Witness ==
    /\ Len(rets) = 14
    /\ \E i, j \in 1..14 : rets[i] < 0 /\ rets[j] > 0
    /\ ~IsNull(rsi) /\ 0 < Val(rsi) /\ Val(rsi) < 100 * Scale

\* the step is a poll_yfinance call that changed the poller's state
Polled == clock' = clock /\ <<failures, last_failure_time, polled>>' #
                              <<failures, last_failure_time, polled>>

\* C38: is_open(t) answers true exactly when t has at least failure_threshold
\* recorded failures and less than recovery_timeout seconds have passed since
\* the last of them; the first call after the timeout sets t's count to 0 and
\* answers false; a poll that succeeds does not lower t's count; and a poll of
\* t changes neither the count nor the last failure time of any other ticker.
C38_CircuitPerTicker ==
    [][Polled =>
         LET t == polled'.ticker
             tripped == failures[t] >= failure_threshold
             recent == clock - last_failure_time[t] < recovery_timeout
         IN /\ polled'.open <=> (tripped /\ recent)
            /\ (tripped /\ ~recent) =>
                  failures'[t] = IF polled'.outcome = "failed" THEN 1 ELSE 0
            /\ (polled'.outcome = "tick" /\ ~tripped) => failures'[t] = failures[t]
            /\ \A u \in BIG_FIVE_TICKERS \ {t} :
                  /\ failures'[u] = failures[u]
                  /\ last_failure_time'[u] = last_failure_time[u]]_vars

\* the circuit of one ticker has been reset by the first poll after its
\* timeout while the circuit of another ticker is open
C38_Witness ==
    \E t, u \in BIG_FIVE_TICKERS :
        /\ t # u
        /\ polled.ticker = t /\ ~polled.open /\ polled.outcome = "tick"
        /\ failures[t] = 0 /\ last_failure_time[t] >= StartClock
        /\ clock - last_failure_time[t] >= recovery_timeout
        /\ failures[u] >= failure_threshold
        /\ clock - last_failure_time[u] < recovery_timeout

\* C39: on a calendar day at most DAILY_LIMIT calls return from
\* check_daily_limit and the counter never exceeds DAILY_LIMIT, and the counter
\* is 0 when the tracker moves to a new date, however the calls of concurrent
\* request threads interleave.
C39_DailyLimitHolds ==
    [][/\ usage_tracker'.count <= DAILY_LIMIT
       /\ passed' <= DAILY_LIMIT
       /\ usage_tracker'.date # usage_tracker.date => usage_tracker'.count = 0]_vars

====
